---- MODULE Spec2Model ----
(***************************************************************************)
(* Model of the ink! ERC-20 token ledger in src/lib.rs: the storage struct *)
(* Erc20 {total_supply, balances}, the constructor `new`, the messages     *)
(* `total_supply`, `balance_of` and `transfer`, and the Transfer event.    *)
(*                                                                         *)
(* Balance is the unsigned type with the range 0 .. MaxBalance (u128 in    *)
(* the source, scaled down so that its whole range is enumerated).  An     *)
(* addition or subtraction that leaves the range either traps (builds with *)
(* overflow checks: the call panics and the host reverts it) or wraps      *)
(* (builds without them); both outcomes are kept.                          *)
(***************************************************************************)
EXTENDS Integers, Sequences, FiniteSets, TLC

\* ------------------------------------------------------------------ bounds
MaxBalance == 3
MaxEvents == 3

\* ------------------------------------------------------------------ types
\* Balance: the values of the unsigned balance type; arithmetic that wraps
\* does so modulo the size of the type
Balance == 0 .. MaxBalance
Modulus == MaxBalance + 1

\* AccountId: the identities the host can supply as caller or argument
AccountId == {"alice", "bob", "charlie"}

\* Option<AccountId>: None is the empty sequence, Some(a) is <<a>>
None == << >>
Some(a) == << a >>

\* Result<()> and the values a message returns
Ok == [tag |-> "Ok", val |-> 0]
InsufficientBalance == [tag |-> "InsufficientBalance", val |-> 0]
Trap == [tag |-> "Trap", val |-> 0]
Value(v) == [tag |-> "Value", val |-> v]

\* The Transfer event
Transfer(from, to, value) == [from |-> from, to |-> to, value |-> value]

\* ------------------------------------------------------------------ Mapping
\* Mapping::default(): no key stored
MappingDefault == [k \in {} |-> 0]

\* Mapping::insert(key, value): store or overwrite the entry of key
insert(m, k, v) == [x \in (DOMAIN m) \cup {k} |-> IF x = k THEN v ELSE m[x]]

\* Mapping::get(key).unwrap_or_default(): the stored value, 0 for no key
get_or_default(m, k) == IF k \in DOMAIN m THEN m[k] ELSE 0

\* ------------------------------------------------------------------ arithmetic
\* from_balance - value on the unsigned type: exact in range; out of range
\* the build either traps or wraps
Sub(a, b) ==
    IF a - b >= 0
    THEN {[trap |-> FALSE, val |-> a - b]}
    ELSE {[trap |-> TRUE, val |-> 0], [trap |-> FALSE, val |-> (a - b) % Modulus]}

\* to_balance + value on the unsigned type
Add(a, b) ==
    IF a + b <= MaxBalance
    THEN {[trap |-> FALSE, val |-> a + b]}
    ELSE {[trap |-> TRUE, val |-> 0], [trap |-> FALSE, val |-> (a + b) % Modulus]}

\* ------------------------------------------------------------------ state
VARIABLES
    total_supply,   \* Erc20.total_supply
    balances,       \* Erc20.balances: function from the stored keys to Balance
    events,         \* the records emitted through env().emit_event, in order
    ctor,           \* the constructor call: env().caller() and its argument
    call,           \* the last call dispatched by the host
    ret,            \* what the last call returned
    locals,         \* from_balance and to_balance as read by the last transfer
    ever_held       \* history: the accounts that have held a nonzero balance

vars == << total_supply, balances, events, ctor, call, ret, locals, ever_held >>

NoLocals == [from_balance |-> 0, to_balance |-> 0]

\* ------------------------------------------------------------------ messages
\* Erc20::balance_of on a storage value
balance_of(self, owner) == get_or_default(self.balances, owner)

\* Erc20::total_supply on a storage value
total_supply_of(self) == self.total_supply

\* Variant of new: the supply is stored, the creator is not credited
new_NoCredit(caller, supply) ==
    [total_supply |-> supply,
     balances |-> MappingDefault,
     events |-> << Transfer(None, Some(caller), supply) >>]

\* Variant of new: the mint event names the creator as its source
new_MintFromCreator(caller, supply) ==
    [total_supply |-> supply,
     balances |-> insert(MappingDefault, caller, supply),
     events |-> << Transfer(Some(caller), Some(caller), supply) >>]

\* Erc20::new: the storage and the event log after construction by caller
new(caller, supply) ==
    [total_supply |-> supply,
     balances |-> insert(MappingDefault, caller, supply),
     events |-> << Transfer(None, Some(caller), supply) >>]

\* A call that panicked: the host reverts storage and events
Reverted(self, evs, fb, tb) ==
    [ret |-> Trap, total_supply |-> self.total_supply, balances |-> self.balances,
     events |-> evs, locals |-> [from_balance |-> fb, to_balance |-> tb]]

\* Variant of transfer_from_to: the debit is written without the balance check
transfer_from_to_NoCheck(self, evs, from, to, value) ==
    LET from_balance == balance_of(self, from) IN
    UNION {
      IF d.trap
      THEN {Reverted(self, evs, from_balance, 0)}
      ELSE LET self1 == [self EXCEPT !.balances = insert(@, from, d.val)]
               to_balance == balance_of(self1, to)
           IN  { IF s.trap
                 THEN Reverted(self, evs, from_balance, to_balance)
                 ELSE [ret |-> Ok,
                       total_supply |-> self1.total_supply,
                       balances |-> insert(self1.balances, to, s.val),
                       events |-> Append(evs, Transfer(Some(from), Some(to), value)),
                       locals |-> [from_balance |-> from_balance,
                                   to_balance |-> to_balance]]
                 : s \in Add(to_balance, value) }
      : d \in Sub(from_balance, value) }

\* Variant of transfer_from_to: the recipient is credited before the check
transfer_from_to_CreditFirst(self, evs, from, to, value) ==
    LET from_balance == balance_of(self, from)
        credited == insert(self.balances, to, (balance_of(self, to) + value) % Modulus)
    IN
    IF from_balance < value
    THEN {[ret |-> InsufficientBalance,
           total_supply |-> self.total_supply, balances |-> credited,
           events |-> evs,
           locals |-> [from_balance |-> from_balance, to_balance |-> 0]]}
    ELSE {[ret |-> Ok,
           total_supply |-> self.total_supply,
           balances |-> insert(credited, from, balance_of([self EXCEPT !.balances = credited], from) - value),
           events |-> Append(evs, Transfer(Some(from), Some(to), value)),
           locals |-> [from_balance |-> from_balance,
                       to_balance |-> balance_of(self, to)]]}

\* Variant of transfer_from_to: the recipient is credited, the sender not debited
transfer_from_to_NoDebit(self, evs, from, to, value) ==
    LET from_balance == balance_of(self, from) IN
    IF from_balance < value
    THEN {[ret |-> InsufficientBalance,
           total_supply |-> self.total_supply, balances |-> self.balances,
           events |-> evs,
           locals |-> [from_balance |-> from_balance, to_balance |-> 0]]}
    ELSE LET to_balance == balance_of(self, to) IN
         {[ret |-> Ok,
           total_supply |-> self.total_supply,
           balances |-> insert(self.balances, to, (to_balance + value) % Modulus),
           events |-> Append(evs, Transfer(Some(from), Some(to), value)),
           locals |-> [from_balance |-> from_balance, to_balance |-> to_balance]]}

\* Variant of transfer_from_to: both balances are read before either is written
transfer_from_to_ReadBoth(self, evs, from, to, value) ==
    LET from_balance == balance_of(self, from)
        to_balance == balance_of(self, to)
    IN
    IF from_balance < value
    THEN {[ret |-> InsufficientBalance,
           total_supply |-> self.total_supply, balances |-> self.balances,
           events |-> evs,
           locals |-> [from_balance |-> from_balance, to_balance |-> 0]]}
    ELSE {[ret |-> Ok,
           total_supply |-> self.total_supply,
           balances |-> insert(insert(self.balances, from, from_balance - value),
                               to, (to_balance + value) % Modulus),
           events |-> Append(evs, Transfer(Some(from), Some(to), value)),
           locals |-> [from_balance |-> from_balance, to_balance |-> to_balance]]}

\* Variant of transfer_from_to: the check rejects a balance equal to the amount
transfer_from_to_StrictCheck(self, evs, from, to, value) ==
    LET from_balance == balance_of(self, from) IN
    IF from_balance <= value
    THEN {[ret |-> InsufficientBalance,
           total_supply |-> self.total_supply, balances |-> self.balances,
           events |-> evs,
           locals |-> [from_balance |-> from_balance, to_balance |-> 0]]}
    ELSE LET self1 == [self EXCEPT !.balances = insert(@, from, from_balance - value)]
             to_balance == balance_of(self1, to)
         IN {[ret |-> Ok,
              total_supply |-> self.total_supply,
              balances |-> insert(self1.balances, to, (to_balance + value) % Modulus),
              events |-> Append(evs, Transfer(Some(from), Some(to), value)),
              locals |-> [from_balance |-> from_balance, to_balance |-> to_balance]]}

\* Variant of transfer_from_to: the amount moved is also taken off total_supply
transfer_from_to_Burn(self, evs, from, to, value) ==
    LET from_balance == balance_of(self, from) IN
    IF from_balance < value
    THEN {[ret |-> InsufficientBalance,
           total_supply |-> self.total_supply, balances |-> self.balances,
           events |-> evs,
           locals |-> [from_balance |-> from_balance, to_balance |-> 0]]}
    ELSE LET self1 == [self EXCEPT !.balances = insert(@, from, from_balance - value)]
             to_balance == balance_of(self1, to)
         IN {[ret |-> Ok,
              total_supply |-> (self.total_supply - value) % Modulus,
              balances |-> insert(self1.balances, to, (to_balance + value) % Modulus),
              events |-> Append(evs, Transfer(Some(from), Some(to), value)),
              locals |-> [from_balance |-> from_balance, to_balance |-> to_balance]]}

\* Variant of transfer_from_to: the event names the recipient as its source
transfer_from_to_WrongEvent(self, evs, from, to, value) ==
    LET from_balance == balance_of(self, from) IN
    IF from_balance < value
    THEN {[ret |-> InsufficientBalance,
           total_supply |-> self.total_supply, balances |-> self.balances,
           events |-> evs,
           locals |-> [from_balance |-> from_balance, to_balance |-> 0]]}
    ELSE LET self1 == [self EXCEPT !.balances = insert(@, from, from_balance - value)]
             to_balance == balance_of(self1, to)
         IN {[ret |-> Ok,
              total_supply |-> self.total_supply,
              balances |-> insert(self1.balances, to, (to_balance + value) % Modulus),
              events |-> Append(evs, Transfer(Some(to), Some(to), value)),
              locals |-> [from_balance |-> from_balance, to_balance |-> to_balance]]}

\* Variant of transfer_from_to: the recipient's balance is read before the debit
transfer_from_to_StaleRead(self, evs, from, to, value) ==
    LET from_balance == balance_of(self, from)
        to_balance == balance_of(self, to)
    IN
    IF from_balance < value
    THEN {[ret |-> InsufficientBalance,
           total_supply |-> self.total_supply, balances |-> self.balances,
           events |-> evs,
           locals |-> [from_balance |-> from_balance, to_balance |-> 0]]}
    ELSE LET self1 == [self EXCEPT !.balances = insert(@, from, from_balance - value)]
         IN { IF s.trap
              THEN Reverted(self, evs, from_balance, to_balance)
              ELSE [ret |-> Ok,
                    total_supply |-> self.total_supply,
                    balances |-> insert(self1.balances, to, s.val),
                    events |-> Append(evs, Transfer(Some(from), Some(to), value)),
                    locals |-> [from_balance |-> from_balance, to_balance |-> to_balance]]
              : s \in Add(to_balance, value) }

\* Variant of transfer_from_to: the caller's balance is written back before
\* the check
transfer_from_to_WriteBack(self, evs, from, to, value) ==
    LET from_balance == balance_of(self, from)
        self0 == [self EXCEPT !.balances = insert(@, from, from_balance)]
    IN
    IF from_balance < value
    THEN {[ret |-> InsufficientBalance,
           total_supply |-> self0.total_supply, balances |-> self0.balances,
           events |-> evs,
           locals |-> [from_balance |-> from_balance, to_balance |-> 0]]}
    ELSE LET self1 == [self0 EXCEPT !.balances = insert(@, from, from_balance - value)]
             to_balance == balance_of(self1, to)
         IN {[ret |-> Ok,
              total_supply |-> self1.total_supply,
              balances |-> insert(self1.balances, to, (to_balance + value) % Modulus),
              events |-> Append(evs, Transfer(Some(from), Some(to), value)),
              locals |-> [from_balance |-> from_balance, to_balance |-> to_balance]]}

\* Variant of transfer_from_to: the amount is taken from the recipient and
\* given to the caller
transfer_from_to_Swapped(self, evs, from, to, value) ==
    LET from_balance == balance_of(self, to) IN
    IF from_balance < value
    THEN {[ret |-> InsufficientBalance,
           total_supply |-> self.total_supply, balances |-> self.balances,
           events |-> evs,
           locals |-> [from_balance |-> from_balance, to_balance |-> 0]]}
    ELSE LET self1 == [self EXCEPT !.balances = insert(@, to, from_balance - value)]
             to_balance == balance_of(self1, from)
         IN {[ret |-> Ok,
              total_supply |-> self1.total_supply,
              balances |-> insert(self1.balances, from, (to_balance + value) % Modulus),
              events |-> Append(evs, Transfer(Some(from), Some(to), value)),
              locals |-> [from_balance |-> from_balance, to_balance |-> to_balance]]}

\* Erc20::transfer_from_to: the set of outcomes of the call on storage self
\* with event log evs (one outcome unless an operation leaves the range)
transfer_from_to(self, evs, from, to, value) ==
    LET from_balance == balance_of(self, from) IN
    IF from_balance < value
    THEN {[ret |-> InsufficientBalance,
           total_supply |-> self.total_supply, balances |-> self.balances,
           events |-> evs,
           locals |-> [from_balance |-> from_balance, to_balance |-> 0]]}
    ELSE UNION {
           IF d.trap
           THEN {Reverted(self, evs, from_balance, 0)}
           ELSE LET self1 == [self EXCEPT !.balances = insert(@, from, d.val)]
                    to_balance == balance_of(self1, to)
                IN  { IF s.trap
                      THEN Reverted(self, evs, from_balance, to_balance)
                      ELSE [ret |-> Ok,
                            total_supply |-> self1.total_supply,
                            balances |-> insert(self1.balances, to, s.val),
                            events |-> Append(evs, Transfer(Some(from), Some(to), value)),
                            locals |-> [from_balance |-> from_balance,
                                        to_balance |-> to_balance]]
                      : s \in Add(to_balance, value) }
           : d \in Sub(from_balance, value) }

\* The accounts whose stored balance in m is nonzero
Holders(m) == {a \in DOMAIN m : m[a] > 0}

\* Storage as the struct the messages receive
Self == [total_supply |-> total_supply, balances |-> balances]

\* ------------------------------------------------------------------ behaviour
\* Deployment: any account constructs the contract with any supply
Init ==
    \E caller \in AccountId, supply \in Balance :
        LET c == new(caller, supply) IN
        /\ total_supply = c.total_supply
        /\ balances = c.balances
        /\ events = c.events
        /\ ctor = [caller |-> caller, total_supply |-> supply]
        /\ call = [op |-> "new", caller |-> caller, total_supply |-> supply]
        /\ ret = Ok
        /\ locals = NoLocals
        /\ ever_held = Holders(c.balances)

\* Erc20::transfer: the host supplies the caller
TransferMsg ==
    /\ Len(events) < MaxEvents
    /\ \E caller \in AccountId, to \in AccountId, value \in Balance :
         \E out \in transfer_from_to(Self, events, caller, to, value) :
            /\ total_supply' = out.total_supply
            /\ balances' = out.balances
            /\ events' = out.events
            /\ call' = [op |-> "transfer", caller |-> caller, to |-> to, value |-> value]
            /\ ret' = out.ret
            /\ locals' = out.locals
            /\ ever_held' = ever_held \cup Holders(out.balances)
            /\ UNCHANGED ctor

\* Erc20::total_supply message
TotalSupplyMsg ==
    /\ call' = [op |-> "total_supply"]
    /\ ret' = Value(total_supply_of(Self))
    /\ locals' = NoLocals
    /\ UNCHANGED << total_supply, balances, events, ctor, ever_held >>

\* Variant of the balance_of message: the lookup stores the default for the key
BalanceOfMsg_StoreDefault ==
    \E owner \in AccountId :
        /\ call' = [op |-> "balance_of", owner |-> owner]
        /\ ret' = Value(balance_of(Self, owner))
        /\ locals' = NoLocals
        /\ balances' = insert(balances, owner, balance_of(Self, owner))
        /\ UNCHANGED << total_supply, events, ctor, ever_held >>

\* Erc20::balance_of message
BalanceOfMsg ==
    \E owner \in AccountId :
        /\ call' = [op |-> "balance_of", owner |-> owner]
        /\ ret' = Value(balance_of(Self, owner))
        /\ locals' = NoLocals
        /\ UNCHANGED << total_supply, balances, events, ctor, ever_held >>

Next == TransferMsg \/ TotalSupplyMsg \/ BalanceOfMsg

Spec == Init /\ [][Next]_vars

\* ------------------------------------------------------------------ helpers
RECURSIVE SumOver(_, _)
SumOver(m, keys) ==
    IF keys = {} THEN 0
    ELSE LET k == CHOOSE x \in keys : TRUE IN m[k] + SumOver(m, keys \ {k})

\* The sum of the balances of all accounts
SumBalances == SumOver([a \in AccountId |-> balance_of(Self, a)], AccountId)

TypeOK ==
    /\ total_supply \in Balance
    /\ DOMAIN balances \subseteq AccountId
    /\ \A k \in DOMAIN balances : balances[k] \in Balance
    /\ Len(events) \in 1 .. MaxEvents
\* ------------------------------------------------------------------ properties
IsTransfer(c) == c.op = "transfer"

\* C1 (Conservation): in every reachable state the sum of the balances of all
\* accounts equals total_supply.
C1_Conservation == SumBalances = total_supply

\* A successful transfer of a positive amount between two distinct accounts
C1_Witness ==
    /\ IsTransfer(call) /\ ret = Ok
    /\ call.caller # call.to /\ call.value > 0
    /\ Len(events) = MaxEvents

\* C2 (Atomicity on failure): a transfer by a caller whose balance is less than
\* the amount returns InsufficientBalance and leaves total_supply, every balance,
\* the stored keys and the event log as they were.
C2_AtomicFailure ==
    [][ (IsTransfer(call') /\ balance_of(Self, call'.caller) < call'.value)
        => /\ ret' = InsufficientBalance
           /\ total_supply' = total_supply
           /\ balances' = balances
           /\ \A x \in AccountId :
                get_or_default(balances', x) = get_or_default(balances, x)
           /\ events' = events ]_vars

\* A failed transfer to an account, from a caller that holds tokens
C2_Witness ==
    /\ IsTransfer(call) /\ ret = InsufficientBalance
    /\ locals.from_balance > 0
    /\ call.caller # call.to

\* C3 (Effect of a successful transfer): with caller # to and a sufficient
\* balance the call returns Ok, the caller loses exactly the amount, the
\* recipient gains exactly the amount, every third account keeps its balance.
C3_TransferEffect ==
    [][ (/\ IsTransfer(call')
         /\ call'.caller # call'.to
         /\ balance_of(Self, call'.caller) >= call'.value)
        => /\ ret' = Ok
           /\ get_or_default(balances', call'.caller)
                = balance_of(Self, call'.caller) - call'.value
           /\ get_or_default(balances', call'.to)
                = balance_of(Self, call'.to) + call'.value
           /\ \A x \in AccountId \ {call'.caller, call'.to} :
                get_or_default(balances', x) = balance_of(Self, x) ]_vars

\* A successful transfer between two accounts while a third one holds tokens
C3_Witness ==
    /\ IsTransfer(call) /\ ret = Ok
    /\ call.caller # call.to /\ call.value > 0
    /\ \E x \in AccountId \ {call.caller, call.to} : get_or_default(balances, x) > 0

\* C4 (Self-transfer neutrality): a transfer to the caller itself with a
\* sufficient balance returns Ok and leaves every balance as it was.
C4_SelfTransfer ==
    [][ (/\ IsTransfer(call')
         /\ call'.caller = call'.to
         /\ balance_of(Self, call'.caller) >= call'.value)
        => /\ ret' = Ok
           /\ \A x \in AccountId :
                get_or_default(balances', x) = balance_of(Self, x) ]_vars

\* A successful self-transfer of a positive amount
C4_Witness ==
    /\ IsTransfer(call) /\ ret = Ok
    /\ call.caller = call.to /\ call.value > 0

\* C5 (Construction): construction by account A with supply s succeeds, and
\* right after it total_supply() = s, balance_of(A) = s, balance_of(B) = 0 for
\* every other account B.
C5_Construction ==
    call.op = "new"
    => /\ ret = Ok
       /\ total_supply_of(Self) = call.total_supply
       /\ balance_of(Self, call.caller) = call.total_supply
       /\ \A b \in AccountId \ {call.caller} : balance_of(Self, b) = 0

\* The state right after a construction with a positive supply
C5_Witness == call.op = "new" /\ call.total_supply > 0 /\ ctor.caller = "bob"

\* The state right after a construction with supply 0
C5_WitnessZero == call.op = "new" /\ call.total_supply = 0
\* C6 (Exact failure condition): a transfer returns InsufficientBalance exactly
\* when the caller's balance is strictly less than the amount, and Ok in every
\* other case; it has no other outcome.
C6_ExactFailure ==
    [][ IsTransfer(call')
        => /\ ret' \in {Ok, InsufficientBalance}
           /\ (ret' = InsufficientBalance
                 <=> balance_of(Self, call'.caller) < call'.value)
           /\ (ret' = Ok
                 <=> balance_of(Self, call'.caller) >= call'.value) ]_vars

\* A successful transfer of 0 by an account that holds nothing
C6_Witness ==
    /\ IsTransfer(call) /\ ret = Ok
    /\ call.value = 0 /\ call.caller # call.to
    /\ locals.from_balance = 0
    /\ call.caller # ctor.caller

\* A successful transfer of the caller's whole positive balance
C6_WitnessWhole ==
    /\ IsTransfer(call) /\ ret = Ok
    /\ call.value = locals.from_balance /\ call.value > 0

\* C7 (total_supply is fixed): in every reachable state the stored total_supply
\* is the constructor's argument, and a total_supply() call returns it.
C7_SupplyFixed ==
    /\ total_supply = ctor.total_supply
    /\ call.op = "total_supply" => ret = Value(ctor.total_supply)

\* total_supply() read after two successful transfers of a positive amount
C7_Witness ==
    /\ call.op = "total_supply"
    /\ Len(events) = MaxEvents
    /\ \A i \in 2 .. Len(events) : events[i].value > 0
    /\ ctor.total_supply > 0

\* C8 (No overflow or underflow): no transfer traps, and in every successful
\* transfer the recipient's balance read after the debit plus the amount is at
\* most total_supply and the caller's balance minus the amount is at least 0.
C8_NoOverflow ==
    IsTransfer(call)
    => /\ ret # Trap
       /\ ret = Ok
            => /\ locals.to_balance + call.value <= total_supply
               /\ locals.to_balance + call.value <= MaxBalance
               /\ locals.from_balance - call.value >= 0

\* A successful transfer that brings the recipient to the whole range of the type
C8_Witness ==
    /\ IsTransfer(call) /\ ret = Ok
    /\ locals.to_balance > 0 /\ call.value > 0
    /\ locals.to_balance + call.value = MaxBalance

\* C9 (Non-negativity and bound): in every reachable state every account's
\* balance is at least 0 and at most total_supply.
C9_Bounded ==
    \A x \in AccountId :
        /\ 0 <= balance_of(Self, x)
        /\ balance_of(Self, x) <= total_supply

\* A state in which an account other than the creator holds the whole supply
C9_Witness ==
    \E x \in AccountId \ {ctor.caller} :
        /\ balance_of(Self, x) = total_supply
        /\ total_supply > 0
        /\ total_supply < MaxBalance

\* C10 (Transfer notification): a successful transfer appends exactly the
\* record {from: caller, to: to, value: amount}; a failed one appends nothing;
\* no step removes or alters a record already emitted.
C10_TransferEvent ==
    [][ /\ (IsTransfer(call') /\ ret' = Ok)
           => events' = Append(events,
                  Transfer(Some(call'.caller), Some(call'.to), call'.value))
        /\ (IsTransfer(call') /\ ret' = InsufficientBalance)
           => events' = events
        /\ Len(events') >= Len(events)
        /\ SubSeq(events', 1, Len(events)) = events ]_vars

\* A successful transfer between distinct accounts following an earlier record
C10_Witness ==
    /\ IsTransfer(call) /\ ret = Ok
    /\ call.caller # call.to /\ call.value > 0
    /\ Len(events) = MaxEvents
    /\ events[Len(events)] = Transfer(Some(call.caller), Some(call.to), call.value)

\* A failed transfer after which the log still ends with an earlier transfer
C10_WitnessFailed ==
    /\ IsTransfer(call) /\ ret = InsufficientBalance
    /\ Len(events) = 2
\* C11 (Mint record): the first record of the log is the constructor's, with
\* no source, the creator as destination and total_supply as value; it is the
\* only record without a source, and every record has a destination.
C11_MintRecord ==
    /\ Len(events) >= 1
    /\ events[1] = Transfer(None, Some(ctor.caller), total_supply)
    /\ events[1].value = ctor.total_supply
    /\ \A i \in 1 .. Len(events) :
         /\ (events[i].from = None) <=> (i = 1)
         /\ events[i].to # None
         /\ \E a \in AccountId : events[i].to = Some(a)

\* A log holding the mint record followed by two transfer records
C11_Witness ==
    /\ Len(events) = MaxEvents
    /\ events[1].from = None
    /\ \A i \in 2 .. Len(events) : events[i].from # None /\ events[i].value > 0
\* The accounts named as source or destination of a transfer record after the
\* mint, that is, the callers and recipients of the successful transfers
Parties ==
    {a \in AccountId : \E i \in 2 .. Len(events) :
        events[i].from = Some(a) \/ events[i].to = Some(a)}

\* C12 as stated (Key presence): a key is stored only for an account that has
\* at some point held a nonzero balance or that is the constructing account.
C12_KeysOnlyForHolders ==
    \A k \in DOMAIN balances : k \in ever_held \/ k = ctor.caller

\* C12 as amended: a key is stored only for an account that has at some point
\* held a nonzero balance, for the constructing account, or for the caller or
\* the recipient of a successful transfer (of any amount, 0 included); a
\* failed transfer and a read store no key.
C12_KeysOnlyForParties ==
    /\ \A k \in DOMAIN balances :
         k \in ever_held \/ k = ctor.caller \/ k \in Parties
    /\ \A k \in DOMAIN balances : balances[k] > 0 => k \in ever_held

\* A key stored, with value 0, for an account that never held tokens
C12_Witness ==
    \E k \in DOMAIN balances :
        /\ k \notin ever_held
        /\ k # ctor.caller
        /\ balances[k] = 0
        /\ total_supply > 0
IsRead(c) == c.op \in {"total_supply", "balance_of"}

\* C13 (Pure reads): total_supply() and balance_of(x), also for an account
\* with no stored key, leave total_supply, the balances mapping with its key
\* set and the event log unchanged and return the stored value (0 for no
\* key); a read repeated right after itself returns the same result.
C13_PureReads ==
    [][ /\ IsRead(call')
           => /\ total_supply' = total_supply
              /\ balances' = balances
              /\ DOMAIN balances' = DOMAIN balances
              /\ events' = events
        /\ call'.op = "total_supply" => ret' = Value(total_supply)
        /\ call'.op = "balance_of"
           => ret' = Value(IF call'.owner \in DOMAIN balances
                           THEN balances[call'.owner] ELSE 0)
        /\ (IsRead(call) /\ call' = call) => ret' = ret ]_vars

\* balance_of of an account with no stored key, after a transfer
C13_Witness ==
    /\ call.op = "balance_of"
    /\ call.owner \notin DOMAIN balances
    /\ ret = Value(0)
    /\ Len(events) > 1
    /\ total_supply > 0

\* total_supply() answered after a transfer
C13_WitnessSupply ==
    /\ call.op = "total_supply" /\ ret = Value(total_supply)
    /\ Len(events) = 2 /\ total_supply = MaxBalance

\* C14 (Only the caller can be debited): whenever a step lowers the balance of
\* an account x, the step is a successful transfer whose caller is x.
C14_OnlyCallerDebited ==
    [][ \A x \in AccountId :
          get_or_default(balances', x) < get_or_default(balances, x)
          => /\ IsTransfer(call')
             /\ ret' = Ok
             /\ call'.caller = x ]_vars

\* A successful transfer by an account other than the creator that lowered the
\* caller's balance
C14_Witness ==
    /\ IsTransfer(call) /\ ret = Ok
    /\ call.caller # ctor.caller /\ call.caller # call.to
    /\ call.value > 0
    /\ balance_of(Self, call.caller) = locals.from_balance - call.value

\* The sum of the values of the records of evs whose field names who
RECURSIVE SumValues(_, _, _)
SumValues(evs, field, who) ==
    IF evs = << >> THEN 0
    ELSE (IF Head(evs)[field] = Some(who) THEN Head(evs).value ELSE 0)
         + SumValues(Tail(evs), field, who)

\* C15 (The log replays to the ledger): for every account x, balance_of(x) is
\* the sum of the values of the records with destination x minus the sum of
\* the values of the records with source x.
C15_LogReplays ==
    \A x \in AccountId :
        balance_of(Self, x) = SumValues(events, "to", x) - SumValues(events, "from", x)

\* A log with a self-transfer record and a transfer between two accounts
C15_Witness ==
    /\ Len(events) = MaxEvents
    /\ \E i \in 2 .. Len(events) :
         events[i].from = events[i].to /\ events[i].value > 0
    /\ \E i \in 2 .. Len(events) :
         events[i].from # events[i].to /\ events[i].value > 0
====
